---- MODULE Spec2Model ----
(***************************************************************************)
(* Streaming aggregation of UK price-paid records (src/main.rs): the       *)
(* ingestion filter and sort, the year-boundary driver loop of main, the   *)
(* per-year accumulator, and the bucket statistics of to_price_bucket and  *)
(* find_median.                                                            *)
(*                                                                         *)
(* Representation notes.                                                   *)
(*  - A HashMap is a function whose DOMAIN is the set of keys present.     *)
(*    Postcodes and enum variants are strings, so a map is a TLA+ record   *)
(*    and has the shape of the JSON object serde writes for it.            *)
(*  - An i32 is an integer in I32Min..I32Max.  Add32 says whether the sum  *)
(*    leaves that range, without ever forming the out-of-range number.     *)
(*  - An f32 is a dyadic rational [m, e] standing for m * 2^e, with m odd  *)
(*    (or m = 0, e = 0) and |m| < 2^24: exactly the finite f32 values that *)
(*    the conversions of this program produce.                             *)
(***************************************************************************)
EXTENDS Integers, Sequences, FiniteSets, TLC

VARIABLES
    raw,                    \* the CSV rows the reader yields (main.rs:148)
    entries,                \* Vec<Entry> (main.rs:146)
    it,                     \* entries.iter().peekable(): index of the next entry
    year,                   \* the driver's current year (main.rs:213)
    postcode_year_entries,  \* the accumulator (main.rs:214)
    out,                    \* the tokens written to stats.json so far
    summarized,             \* history: per emitted report, the entries it summarized
    pc,                     \* position in main
    overflow_checks,        \* build profile: TRUE = i32 overflow panics, FALSE = wraps
    properties,             \* argument of a direct to_price_bucket call
    result                  \* outcome of that call

vars == <<raw, entries, it, year, postcode_year_entries, out, summarized, pc,
          overflow_checks, properties, result>>

(***************************************************************************)
(* Bounds of the model.                                                    *)
(***************************************************************************)
MaxRecords == 3
MaxSamples == 3

(***************************************************************************)
(* i32 and f32 arithmetic.                                                 *)
(***************************************************************************)
I32Max == 2147483647
I32Min == -I32Max - 1

F32Digits == 24

Abs(x) == IF x < 0 THEN -x ELSE x

RECURSIVE BitLen(_)
BitLen(a) == IF a = 0 THEN 0 ELSE 1 + BitLen(a \div 2)

RECURSIVE Normalize(_, _)
Normalize(m, e) ==
    IF m = 0 THEN [m |-> 0, e |-> 0]
    ELSE IF m % 2 = 0 THEN Normalize(m \div 2, e + 1)
    ELSE [m |-> m, e |-> e]

\* `x as f32` for an i32 x: round to nearest, ties to even, on 24 significant bits.
ToF32(x) ==
    LET a == Abs(x)
        k == BitLen(a)
    IN  IF k <= F32Digits THEN Normalize(x, 0)
        ELSE LET sh   == k - F32Digits
                 q    == 2 ^ sh
                 hi   == a \div q
                 lo   == a % q
                 half == q \div 2
                 r    == IF lo > half \/ (lo = half /\ hi % 2 = 1) THEN hi + 1 ELSE hi
             IN  Normalize(IF x < 0 THEN -r ELSE r, sh)

\* f / 2f32: exact for every f32 far from the subnormal range.
HalfF32(f) == IF f.m = 0 THEN f ELSE [m |-> f.m, e |-> f.e - 1]

\* a + b on i32.  ok = FALSE when the mathematical sum is outside the i32 range;
\* val is then the two's complement wrap of the sum.
Add32(a, b) ==
    IF a > 0 /\ b > 0 /\ a > I32Max - b
        THEN [ok |-> FALSE, val |-> (a - I32Max - 1) + (b - I32Max - 1)]
    ELSE IF a < 0 /\ b < 0 /\ a < I32Min - b
        THEN [ok |-> FALSE, val |-> (a + I32Max + 1) + (b + I32Max + 1)]
    ELSE [ok |-> TRUE, val |-> a + b]

(***************************************************************************)
(* Price Bucket Builder: to_price_bucket and find_median.                  *)
(***************************************************************************)
BandMin == 300000
BandMax == 800000

\* A panicking call has no value: what stands for it names the panic.
IndexPanic == [panic |-> "index out of bounds"]
OverflowPanic == [panic |-> "attempt to add with overflow"]
Panicked(v) == "panic" \in DOMAIN v

RECURSIVE Insert(_, _)
Insert(x, s) ==
    IF s = <<>> THEN <<x>>
    ELSE IF x <= Head(s) THEN <<x>> \o s
    ELSE <<Head(s)>> \o Insert(x, Tail(s))

sort_unstable_Identity(s) == s

\* prices.sort_unstable() on i32: ascending; equal keys are indistinguishable.
RECURSIVE sort_unstable(_)
sort_unstable(s) == IF s = <<>> THEN <<>> ELSE Insert(Head(s), sort_unstable(Tail(s)))

\* Rust indexes from 0.
At(v, i) == v[i + 1]

find_median(prices) ==
    LET len == Len(prices)
    IN  IF len >= 2 /\ len % 2 = 0
        THEN LET middle == len \div 2
                 sum    == Add32(At(prices, middle - 1), At(prices, middle))
             IN  IF ~sum.ok /\ overflow_checks THEN OverflowPanic
                 ELSE HalfF32(ToF32(sum.val))
        ELSE IF len \div 2 < len THEN ToF32(At(prices, len \div 2))
        ELSE IndexPanic    \* prices[0] on an empty Vec

RECURSIVE IterMin(_)
IterMin(s) ==
    IF Len(s) = 1 THEN Head(s)
    ELSE LET r == IterMin(Tail(s)) IN IF Head(s) <= r THEN Head(s) ELSE r

IterMax_First(s) == Head(s)

RECURSIVE IterMax(_)
IterMax(s) ==
    IF Len(s) = 1 THEN Head(s)
    ELSE LET r == IterMax(Tail(s)) IN IF Head(s) >= r THEN Head(s) ELSE r

InBand_Exclusive(p) == p.price > BandMin /\ p.price < BandMax

\* The closure of .filter(...) at main.rs:91.
InBand(p) == p.price >= BandMin /\ p.price <= BandMax

\* Property::clone: the address and the price (the history tag is not data).
Clone(p) == [address |-> p.address, price |-> p.price]

RECURSIVE FilterCloned(_)
FilterCloned(s) ==
    IF s = <<>> THEN <<>>
    ELSE IF InBand(Head(s)) THEN <<Clone(Head(s))>> \o FilterCloned(Tail(s))
    ELSE FilterCloned(Tail(s))

\* to_price_bucket with the count taken from the retained properties.
to_price_bucket_CountRetained(props) ==
    LET prices == sort_unstable([i \in 1..Len(props) |-> props[i].price])
        median == find_median(prices)
        min    == IF prices = <<>> THEN 0 ELSE IterMin(prices)
        max    == IF prices = <<>> THEN 0 ELSE IterMax(prices)
    IN  IF Panicked(median) THEN median
        ELSE [count      |-> Len(FilterCloned(props)),
              median     |-> median,
              range      |-> [start |-> min, end |-> max],
              properties |-> FilterCloned(props)]

to_price_bucket(props) ==
    LET prices == sort_unstable([i \in 1..Len(props) |-> props[i].price])
        median == find_median(prices)
        min    == IF prices = <<>> THEN 0 ELSE IterMin(prices)
        max    == IF prices = <<>> THEN 0 ELSE IterMax(prices)
    IN  IF Panicked(median) THEN median
        ELSE [count      |-> Len(prices),
              median     |-> median,
              range      |-> [start |-> min, end |-> max],
              properties |-> FilterCloned(props)]

(***************************************************************************)
(* Year Aggregate: the nested map and process_year_entry.                  *)
(***************************************************************************)
EmptyMap == [k \in {} |-> 0]

\* HashMap::entry(k).or_insert(d): the value at k, d when k is absent.
OrInsert(map, k, d) == IF k \in DOMAIN map THEN map[k] ELSE d

\* The map with k bound to v, every other key as before.
Put(map, k, v) == [x \in DOMAIN map \cup {k} |-> IF x = k THEN v ELSE map[x]]

\* The orders in which iterating a HashMap may yield its keys: all of them.
IterOrders(map) ==
    {s \in [1..Cardinality(DOMAIN map) -> DOMAIN map] :
        \A i, j \in 1..Cardinality(DOMAIN map) : s[i] = s[j] => i = j}

\* The (type, age) keys of a YearEntry's nested map.
TypeAgeKeys(props) == UNION {{<<t, a>> : a \in DOMAIN props[t]} : t \in DOMAIN props}

\* The orders in which the nested loops of process_year_entry may visit the lists:
\* the types in any order, and under each type the ages in any order.
VisitOrders(props) ==
    LET n == Cardinality(TypeAgeKeys(props))
    IN  {s \in [1..n -> TypeAgeKeys(props)] :
            /\ \A i, j \in 1..n : s[i] = s[j] => i = j
            /\ \A i, j, k \in 1..n :
                  (i < j /\ j < k /\ s[i][1] = s[k][1]) => s[j][1] = s[i][1]}

\* main.rs:114-123: the loops of process_year_entry over the lists in visit order.
RECURSIVE InsertBuckets(_, _, _)
InsertBuckets(buckets, props, visits) ==
    IF visits = <<>> THEN buckets
    ELSE LET t      == Head(visits)[1]
             a      == Head(visits)[2]
             bucket == to_price_bucket(props[t][a])
             by_age == OrInsert(buckets, t, EmptyMap)
         IN  IF Panicked(bucket) THEN bucket
             ELSE InsertBuckets(Put(buckets, t, Put(by_age, a, OrInsert(by_age, a, bucket))),
                                props, Tail(visits))

process_year_entry(entry, visits) ==
    LET buckets == InsertBuckets(EmptyMap, entry.properties, visits)
    IN  IF Panicked(buckets) THEN buckets
        ELSE [year |-> entry.year, buckets |-> buckets]

\* The history tags of every sample the accumulator holds.
Tags(list) == {list[i].rec : i \in 1..Len(list)}

Held(acc) ==
    UNION {UNION {UNION {Tags(acc[p].properties[t][a]) :
                             a \in DOMAIN acc[p].properties[t]} :
                      t \in DOMAIN acc[p].properties} :
               p \in DOMAIN acc}

(***************************************************************************)
(* Ingestion: the reader loop of main, its filters, and the sort.          *)
(***************************************************************************)
MinYear == 2021

DESIRABLE_POSTCODES == {"E14", "E16", "SE1", "SE16"}
INCLUDED_POSTCODES == DESIRABLE_POSTCODES

to_property_type(str) ==
    CASE str = "D" -> "Detached"
      [] str = "S" -> "SemiDetached"
      [] str = "T" -> "Terraced"
      [] str = "F" -> "Flat"
      [] OTHER -> "Other"

to_property_age(str) == IF str = "Y" THEN "New" ELSE "Old"

to_duration_of_transfer(str) == IF str = "F" THEN "Freehold" ELSE "Leasehold"

\* One CSV row, its price and date columns already parsed, its postcode column
\* split at the space.
Row(price, y, ordinal, outcode, type, age, duration) ==
    [price |-> price, date |-> [year |-> y, ordinal |-> ordinal],
     postcode |-> <<outcode, "1AA">>, property_type |-> type, old_new |-> age,
     duration |-> duration, paon |-> "1", saon |-> "", street |-> "HIGH ST",
     city |-> "LONDON"]

\* The rows an input file is drawn from: two kept postcodes over two kept years,
\* a row of a year before MinYear, one row for each of the other three filters,
\* and a row of another type and age at the top of the i32 range.
Rows ==
    {Row(p, y, 1, "SE1", "F", "N", "L") : p \in {100000, 300000, 500000}, y \in {2021, 2022}}
    \cup {Row(500000, y, 2, "E14", "F", "N", "L") : y \in {2021, 2022}}
    \cup {Row(100000, 2020, 1, "SE1", "F", "N", "L")}
    \cup {Row(300000, 2021, 1, "SE1", "F", "N", "F"),
          Row(300000, 2021, 1, "N1", "F", "N", "L"),
          Row(300000, 2021, 1, "SE1", "O", "N", "L"),
          Row(I32Max, 2022, 1, "SE1", "T", "Y", "L")}

\* The filters of the reader loop: a row is skipped by the first `continue` it meets.
Kept(row) ==
    /\ ~(row.date.year < MinYear)
    /\ ~(to_duration_of_transfer(row.duration) # "Leasehold")
    /\ Head(row.postcode) \in INCLUDED_POSTCODES
    /\ ~(to_property_type(row.property_type) = "Other")

\* The address string, as the sequence of the pieces appended to it.
Address(row) ==
    (IF row.paon # "" THEN <<row.paon, ", ">> ELSE <<>>)
    \o (IF row.saon # "" THEN <<row.saon, ", ">> ELSE <<>>)
    \o <<row.street, ", ", row.city>>

ToEntry(row) ==
    [price         |-> row.price,
     date          |-> row.date,
     address       |-> Address(row),
     postcode      |-> Head(row.postcode),
     property_type |-> to_property_type(row.property_type),
     property_age  |-> to_property_age(row.old_new),
     duration      |-> to_duration_of_transfer(row.duration)]

RECURSIVE ReadAll(_)
ReadAll(rows) ==
    IF rows = <<>> THEN <<>>
    ELSE IF Kept(Head(rows)) THEN <<ToEntry(Head(rows))>> \o ReadAll(Tail(rows))
    ELSE ReadAll(Tail(rows))

\* NaiveDate::cmp.
DateLeq(d1, d2) == d1.year < d2.year \/ (d1.year = d2.year /\ d1.ordinal <= d2.ordinal)

IsSortedByDate(s) == \A i \in 1..(Len(s) - 1) : DateLeq(s[i].date, s[i + 1].date)

\* The rearrangements of s.
Rearrangements(s) ==
    {[i \in 1..Len(s) |-> s[f[i]]] :
        f \in {g \in [1..Len(s) -> 1..Len(s)] : \A i, j \in 1..Len(s) : g[i] = g[j] => i = j}}

\* sort_unstable_by: some rearrangement in date order; entries of equal date may
\* come out in any order.
SortedByDate(s) == {t \in Rearrangements(s) : IsSortedByDate(t)}

(***************************************************************************)
(* The output file: the sequence of writes to stats.json.                  *)
(***************************************************************************)
Punct(text) == [kind |-> "punct", text |-> text]
Json(value) == [kind |-> "json", value |-> value]

\* serde_json of the accumulator: YearEntry.properties is skip_serializing.
SerializeAccumulator(acc) == [p \in DOMAIN acc |-> [year |-> acc[p].year]]

(***************************************************************************)
(* main.                                                                   *)
(***************************************************************************)
Pending == [pending |-> TRUE]

\* The input files: every sequence of up to MaxRecords rows, and the sequences of
\* one more row that fill a single list of the accumulator.
SameKeyRows == {Row(p, 2021, 1, "SE1", "F", "N", "L") : p \in {100000, 300000, 500000}}

Inputs == UNION {[1..n -> Rows] : n \in 0..MaxRecords} \cup [1..(MaxRecords + 1) -> SameKeyRows]

Init ==
    /\ raw \in Inputs
    /\ overflow_checks \in BOOLEAN
    /\ entries = <<>>
    /\ it = 0
    /\ year = 0
    /\ postcode_year_entries = EmptyMap
    /\ out = <<>>
    /\ summarized = <<>>
    /\ pc = "read"
    /\ properties = <<>>
    /\ result = Pending

\* main.rs:148-197: the reader loop.
Read ==
    /\ pc = "read"
    /\ entries' = ReadAll(raw)
    /\ pc' = "sort"
    /\ UNCHANGED <<raw, it, year, postcode_year_entries, out, summarized,
                   overflow_checks, properties, result>>

\* main.rs:201.
Sort ==
    /\ pc = "sort"
    /\ entries' \in SortedByDate(entries)
    /\ pc' = "start"
    /\ UNCHANGED <<raw, it, year, postcode_year_entries, out, summarized,
                   overflow_checks, properties, result>>

\* main.rs:213-218 with the file created and opened before entries[0] is read.
Start_FileFirst ==
    /\ pc = "start"
    /\ IF entries = <<>>
       THEN /\ out' = <<Punct("[")>>
            /\ pc' = "panicked"
            /\ UNCHANGED <<year, postcode_year_entries, it>>
       ELSE /\ year' = At(entries, 0).date.year
            /\ postcode_year_entries' = EmptyMap
            /\ out' = <<Punct("[")>>
            /\ it' = 1
            /\ pc' = "loop"
    /\ UNCHANGED <<raw, entries, summarized, overflow_checks, properties, result>>

\* main.rs:213-218: entries[0] panics on an empty Vec, before the file is created.
Start ==
    /\ pc = "start"
    /\ IF entries = <<>>
       THEN /\ pc' = "panicked"
            /\ UNCHANGED <<year, postcode_year_entries, out, it>>
       ELSE /\ year' = At(entries, 0).date.year
            /\ postcode_year_entries' = EmptyMap
            /\ out' = <<Punct("[")>>
            /\ it' = 1
            /\ pc' = "loop"
    /\ UNCHANGED <<raw, entries, summarized, overflow_checks, properties, result>>

\* Routing that puts a fresh one-sample list at the key instead of pushing.
Routed_Replace(acc, entry, tag) ==
    LET year_entry == OrInsert(acc, entry.postcode,
                               [properties |-> EmptyMap, year |-> entry.date.year])
        by_age     == OrInsert(year_entry.properties, entry.property_type, EmptyMap)
        sample     == [address |-> entry.address, price |-> entry.price, rec |-> tag]
    IN  Put(acc, entry.postcode,
            [properties |-> Put(year_entry.properties, entry.property_type,
                                Put(by_age, entry.property_age, <<sample>>)),
             year       |-> year_entry.year])

\* Routing that creates the nested entries and pushes nothing.
Routed_CreateOnly(acc, entry, tag) ==
    LET year_entry == OrInsert(acc, entry.postcode,
                               [properties |-> EmptyMap, year |-> entry.date.year])
        by_age     == OrInsert(year_entry.properties, entry.property_type, EmptyMap)
        list       == OrInsert(by_age, entry.property_age, <<>>)
    IN  Put(acc, entry.postcode,
            [properties |-> Put(year_entry.properties, entry.property_type,
                                Put(by_age, entry.property_age, list)),
             year       |-> year_entry.year])

\* main.rs:244-259: the entry's sample appended at postcode, type, age.
Routed(acc, entry, tag) ==
    LET year_entry == OrInsert(acc, entry.postcode,
                               [properties |-> EmptyMap, year |-> entry.date.year])
        by_age     == OrInsert(year_entry.properties, entry.property_type, EmptyMap)
        list       == OrInsert(by_age, entry.property_age, <<>>)
        sample     == [address |-> entry.address, price |-> entry.price, rec |-> tag]
    IN  Put(acc, entry.postcode,
            [properties |-> Put(year_entry.properties, entry.property_type,
                                Put(by_age, entry.property_age, Append(list, sample))),
             year       |-> year_entry.year])

\* The iteration orders of one flush: of the postcodes, and of the lists under
\* each postcode.
FlushOrders(acc) ==
    {[postcodes |-> ps, visits |-> v] :
        ps \in IterOrders(acc),
        v \in {f \in [DOMAIN acc -> UNION {VisitOrders(acc[p].properties) : p \in DOMAIN acc}] :
                  \A p \in DOMAIN acc : f[p] \in VisitOrders(acc[p].properties)}}

\* main.rs:223-229: the loop over the postcodes, in iteration order.
RECURSIVE PushProcessed(_, _, _, _)
PushProcessed(processed, acc, order, postcodes) ==
    IF postcodes = <<>> THEN processed
    ELSE LET p == Head(postcodes)
             e == process_year_entry(acc[p], order.visits[p])
         IN  IF Panicked(e) THEN e
             ELSE PushProcessed(Put(processed, p, Append(OrInsert(processed, p, <<>>), e)),
                                acc, order, Tail(postcodes))

\* main.rs:221-229.
Processed(acc, order) == PushProcessed(EmptyMap, acc, order, order.postcodes)

\* main.rs:220: the condition of the flush.
MustFlush_YearChangeOnly(entry, is_last) == entry.date.year # year

MustFlush(entry, is_last) == entry.date.year # year \/ is_last

\* main.rs:240: the year the driver goes on with after a flush.
NextYear_Stale(entry) == year

NextYear(entry) == entry.date.year

\* main.rs:241: postcode_year_entries.clear().
Cleared_Kept(acc) == acc

Cleared(acc) == EmptyMap

\* main.rs:261-262: what is written once the loop has ended.
Closing_BracketOnly(acc) == <<Punct("]")>>

Closing(acc) == <<Json(SerializeAccumulator(acc)), Punct("]")>>

\* The loop body with the record routed before the flush instead of after it.
Iterate_RouteFirst ==
    /\ pc = "loop"
    /\ it <= Len(entries)
    /\ LET entry   == entries[it]
           is_last == it = Len(entries)
           routed  == Routed(postcode_year_entries, entry, it)
       IN  IF MustFlush(entry, is_last)
           THEN \E order \in FlushOrders(routed) :
                LET done == Processed(routed, order)
                IN  IF Panicked(done)
                    THEN /\ pc' = "panicked"
                         /\ UNCHANGED <<it, year, postcode_year_entries, out, summarized>>
                    ELSE /\ out' = out \o <<Json([year |-> year, postcodes |-> done]),
                                            Punct(",")>>
                         /\ summarized' = Append(summarized, Held(routed))
                         /\ year' = NextYear(entry)
                         /\ postcode_year_entries' = Cleared(routed)
                         /\ it' = it + 1
                         /\ pc' = "loop"
           ELSE /\ postcode_year_entries' = routed
                /\ it' = it + 1
                /\ pc' = "loop"
                /\ UNCHANGED <<year, out, summarized>>
    /\ UNCHANGED <<raw, entries, overflow_checks, properties, result>>

\* main.rs:219-260: one iteration of the loop, for the entry it.next() yields.
Iterate ==
    /\ pc = "loop"
    /\ it <= Len(entries)
    /\ LET entry   == entries[it]
           is_last == it = Len(entries)
       IN  IF MustFlush(entry, is_last)
           THEN \E order \in FlushOrders(postcode_year_entries) :
                LET done == Processed(postcode_year_entries, order)
                IN  IF Panicked(done)
                    THEN /\ pc' = "panicked"
                         /\ UNCHANGED <<it, year, postcode_year_entries, out, summarized>>
                    ELSE /\ out' = out \o <<Json([year |-> year, postcodes |-> done]),
                                            Punct(",")>>
                         /\ summarized' = Append(summarized, Held(postcode_year_entries))
                         /\ year' = NextYear(entry)
                         /\ postcode_year_entries' =
                                Routed(Cleared(postcode_year_entries), entry, it)
                         /\ it' = it + 1
                         /\ pc' = "loop"
           ELSE /\ postcode_year_entries' = Routed(postcode_year_entries, entry, it)
                /\ it' = it + 1
                /\ pc' = "loop"
                /\ UNCHANGED <<year, out, summarized>>
    /\ UNCHANGED <<raw, entries, overflow_checks, properties, result>>

\* main.rs:261-264: the loop has ended.
Finish ==
    /\ pc = "loop"
    /\ it > Len(entries)
    /\ out' = out \o Closing(postcode_year_entries)
    /\ pc' = "done"
    /\ UNCHANGED <<raw, entries, it, year, postcode_year_entries, summarized,
                   overflow_checks, properties, result>>

Next == Read \/ Sort \/ Start \/ Iterate \/ Finish

Spec == Init /\ [][Next]_vars

(***************************************************************************)
(* A direct call of to_price_bucket on an arbitrary sample list.           *)
(***************************************************************************)
BucketPrices ==
    {-100, 100, 200, 300, 400, 500, BandMin - 1, BandMin, BandMax, BandMax + 1,
     2 ^ F32Digits + 1, I32Max}

Sample(price, tag) ==
    [address |-> <<"1", ", ", "HIGH ST", ", ", "LONDON">>, price |-> price, rec |-> tag]

InitBucket ==
    /\ properties \in UNION {{[i \in 1..n |-> Sample(ps[i], i)] : ps \in [1..n -> BucketPrices]} :
                                n \in 0..MaxSamples}
    /\ overflow_checks \in BOOLEAN
    /\ result = Pending
    /\ pc = "call"
    /\ raw = <<>>
    /\ entries = <<>>
    /\ it = 0
    /\ year = 0
    /\ postcode_year_entries = EmptyMap
    /\ out = <<>>
    /\ summarized = <<>>

CallToPriceBucket ==
    /\ pc = "call"
    /\ result' = to_price_bucket(properties)
    /\ pc' = "returned"
    /\ UNCHANGED <<raw, entries, it, year, postcode_year_entries, out, summarized,
                   overflow_checks, properties>>

NextBucket == CallToPriceBucket

SpecBucket == InitBucket /\ [][NextBucket]_vars

(***************************************************************************)
(* Vocabulary of the properties.                                           *)
(***************************************************************************)
\* A YearlyReport in the output: a JSON object with exactly the keys of
\* ProcessedYearEntries.
IsYearlyReport(token) ==
    token.kind = "json" /\ DOMAIN token.value = {"year", "postcodes"}

ReportTokens == SelectSeq(out, IsYearlyReport)

Reports == [i \in 1..Len(ReportTokens) |-> ReportTokens[i].value]

\* The buckets of all emitted reports, each named by report, postcode, type, age.
BucketKeys ==
    UNION {UNION {UNION {{<<i, p, t, a>> : a \in DOMAIN Reports[i].postcodes[p][1].buckets[t]} :
                             t \in DOMAIN Reports[i].postcodes[p][1].buckets} :
                      p \in DOMAIN Reports[i].postcodes} :
               i \in 1..Len(Reports)}

BucketAt(k) == Reports[k[1]].postcodes[k[2]][1].buckets[k[3]][k[4]]

RECURSIVE SumCounts(_)
SumCounts(keys) ==
    IF keys = {} THEN 0
    ELSE LET k == CHOOSE x \in keys : TRUE
         IN  BucketAt(k).count + SumCounts(keys \ {k})

YearsOf(s) == {s[i].date.year : i \in 1..Len(s)}

\* The f32 f is exactly whole + half/2 (half is 0 or 1).
F32Is(f, whole, half) ==
    IF half = 1 THEN f.e = -1 /\ (f.m - 1) \div 2 = whole
    ELSE IF whole = 0 THEN f.m = 0
    ELSE /\ f.m # 0
         /\ f.e >= 0
         /\ f.e <= 30
         /\ whole % (2 ^ f.e) = 0
         /\ whole \div (2 ^ f.e) = f.m

PricesOf(props) == [i \in 1..Len(props) |-> props[i].price]

\* The price of rank k (from 0) in the list, by counting.
Ranked(prices, k) ==
    CHOOSE v \in {prices[i] : i \in 1..Len(prices)} :
        /\ Cardinality({i \in 1..Len(prices) : prices[i] < v}) <= k
        /\ Cardinality({i \in 1..Len(prices) : prices[i] <= v}) > k

\* The statistical median of a non-empty list as whole + half/2.
StatisticalMedian(prices) ==
    LET n == Len(prices)
        a == Ranked(prices, n \div 2 - 1)
        b == Ranked(prices, n \div 2)
    IN  IF n % 2 = 1 THEN [whole |-> b, half |-> 0]
        ELSE [whole |-> (a \div 2) + (b \div 2) + ((a % 2) * (b % 2)),
              half  |-> ((a % 2) + (b % 2)) % 2]

SameYear(s) == \A i, j \in 1..Len(s) : s[i].date.year = s[j].date.year

(***************************************************************************)
(* Properties of the driver, under Spec.                                   *)
(***************************************************************************)
\* C1: when the driver has finished, every record of the stream has been
\* summarized by exactly one emitted YearlyReport, and the bucket counts of all
\* emitted reports add up to the number of records.
C1_EveryRecordReportedOnce ==
    pc = "done" =>
        /\ \A r \in 1..Len(entries) :
              Cardinality({k \in 1..Len(summarized) : r \in summarized[k]}) = 1
        /\ SumCounts(BucketKeys) = Len(entries)

\* C2: when the driver has finished, there are as many YearlyReports as distinct
\* years in the stream, and each distinct year has one report tagged with it.
C2_OneReportPerYear ==
    pc = "done" =>
        /\ Len(Reports) = Cardinality(YearsOf(entries))
        /\ \A y \in YearsOf(entries) :
              Cardinality({i \in 1..Len(Reports) : Reports[i].year = y}) = 1

\* The stream of the scenario for a first year y: two records of year y with prices
\* 100000 and 300000 at one postcode, type and age, then one record of year y + 1
\* with price 500000 at another postcode.
IsScenario(s, y) ==
    /\ Len(s) = 3
    /\ s[1].date.year = y /\ s[2].date.year = y /\ s[3].date.year = y + 1
    /\ {s[1].price, s[2].price} = {100000, 300000}
    /\ s[3].price = 500000
    /\ s[1].postcode = s[2].postcode /\ s[3].postcode # s[1].postcode
    /\ s[1].property_type = s[2].property_type
    /\ s[1].property_age = s[2].property_age

OneBucket(report, stream_entry, count, median, lo, hi) ==
    /\ DOMAIN report.postcodes = {stream_entry.postcode}
    /\ Len(report.postcodes[stream_entry.postcode]) = 1
    /\ LET buckets == report.postcodes[stream_entry.postcode][1].buckets
       IN  /\ DOMAIN buckets = {stream_entry.property_type}
           /\ DOMAIN buckets[stream_entry.property_type] = {stream_entry.property_age}
           /\ LET b == buckets[stream_entry.property_type][stream_entry.property_age]
              IN  /\ b.count = count
                  /\ F32Is(b.median, median, 0)
                  /\ b.range = [start |-> lo, end |-> hi]

\* C3: for the scenario stream (first year 2020 as written, or the same stream one
\* year later) the driver emits two YearlyReports: the first year with one bucket of
\* count 2, median 200000, range (100000, 300000), the second year with one bucket
\* of count 1, median 500000, range (500000, 500000).
C3_ScenarioTwoReports ==
    \A y \in {2020, 2021} :
        (pc = "done" /\ IsScenario(entries, y)) =>
            /\ Len(Reports) = 2
            /\ Reports[1].year = y
            /\ OneBucket(Reports[1], entries[1], 2, 200000, 100000, 300000)
            /\ Reports[2].year = y + 1
            /\ OneBucket(Reports[2], entries[3], 1, 500000, 500000, 500000)

C5_ReportYearsAscending ==
    \A i, j \in 1..Len(Reports) : i < j => Reports[i].year < Reports[j].year

C5_Witness ==
    /\ pc = "done"
    /\ Len(Reports) >= 2
    /\ Reports[1].year < Reports[2].year

\* C6: no record is summarized by two different YearlyReports: the records behind
\* any two emitted reports are disjoint, and right after a flush the accumulator
\* holds nothing but the record that triggered it.
C6_NoRecordInTwoReports ==
    /\ \A i, j \in 1..Len(summarized) :
          i # j => summarized[i] \cap summarized[j] = {}
    /\ \A k \in 1..Len(summarized) :
          \A r \in summarized[k] : r \notin Held(postcode_year_entries)

C6_Witness ==
    /\ Len(summarized) >= 2
    /\ summarized[1] # {}
    /\ summarized[2] # {}

\* C10: the tokens of a finished run form a well-formed array: an opening bracket,
\* then elements with exactly one separator between neighbours and none before the
\* closing bracket, then the closing bracket; and the closing bracket is in the
\* output only when every record has been consumed.
C10_WellFormedArray ==
    /\ pc = "done" =>
          /\ Len(out) >= 3
          /\ out[1] = Punct("[")
          /\ out[Len(out)] = Punct("]")
          /\ \A i \in 2..(Len(out) - 1) :
                IF i % 2 = 0 THEN out[i].kind = "json" ELSE out[i] = Punct(",")
          /\ out[Len(out) - 1].kind = "json"
    /\ (\E i \in 1..Len(out) : out[i] = Punct("]")) =>
          /\ pc = "done"
          /\ it > Len(entries)
          /\ \A i \in 1..(Len(out) - 1) : out[i] # Punct("]")

C10_Witness ==
    /\ pc = "done"
    /\ Len(out) = 7
    /\ out[6].kind = "json"
    /\ out[5] = Punct(",")

\* The shape of one element of the output array as the output format has it: an
\* object with year and postcodes, each postcode a list of objects with year and
\* buckets, each bucket with count, median and range.
IsYearlyObject(value) ==
    /\ DOMAIN value = {"year", "postcodes"}
    /\ \A p \in DOMAIN value.postcodes :
          \A i \in 1..Len(value.postcodes[p]) :
              LET e == value.postcodes[p][i]
              IN  /\ DOMAIN e = {"year", "buckets"}
                  /\ \A t \in DOMAIN e.buckets : \A a \in DOMAIN e.buckets[t] :
                        {"count", "median", "range"} \subseteq DOMAIN e.buckets[t][a]

\* C11: every element written into the output array is a yearly object (year and
\* postcodes, with count, median and range per type and age); nothing of another
\* shape is written.
C11_OnlyYearlyObjects ==
    \A i \in 1..Len(out) : out[i].kind = "json" => IsYearlyObject(out[i].value)

\* C12: when no record is left after filtering, the run ends in a panic with the
\* driver never started: no year, nothing accumulated, no report and no token
\* written.
C12_EmptyInputIsFatal ==
    (pc \notin {"read", "sort", "start"} /\ ReadAll(raw) = <<>>) =>
        /\ pc = "panicked"
        /\ out = <<>>
        /\ Len(Reports) = 0
        /\ it = 0
        /\ year = 0
        /\ postcode_year_entries = EmptyMap

C12_Witness ==
    /\ pc = "panicked"
    /\ Len(raw) = MaxRecords
    /\ entries = <<>>
    /\ out = <<>>

\* The statistics of what a flush computes: count, median and range of every
\* bucket, without the retained properties.
StatsOf(processed) ==
    IF Panicked(processed) THEN processed
    ELSE [p \in DOMAIN processed |->
            [i \in 1..Len(processed[p]) |->
                [year    |-> processed[p][i].year,
                 buckets |->
                    [t \in DOMAIN processed[p][i].buckets |->
                        [a \in DOMAIN processed[p][i].buckets[t] |->
                            LET b == processed[p][i].buckets[t][a]
                            IN  [count |-> b.count, median |-> b.median,
                                 range |-> b.range]]]]]]

\* The ways of ranking the records the accumulator holds.
Rankings(acc) ==
    {f \in [Held(acc) -> 1..Cardinality(Held(acc))] :
        \A r1, r2 \in Held(acc) : f[r1] = f[r2] => r1 = r2}

\* The samples of a list in the order of their ranks.
ByRank(list, rank) ==
    [j \in 1..Len(list) |->
        list[CHOOSE i \in 1..Len(list) :
                Cardinality({h \in 1..Len(list) : rank[list[h].rec] <= rank[list[i].rec]}) = j]]

\* The accumulator with the samples of every list rearranged by rank.
Rearranged(acc, rank) ==
    [p \in DOMAIN acc |->
        [year       |-> acc[p].year,
         properties |->
            [t \in DOMAIN acc[p].properties |->
                [a \in DOMAIN acc[p].properties[t] |->
                    ByRank(acc[p].properties[t][a], rank)]]]]

\* C13: whenever a flush is due, what it computes from the accumulator is one set
\* of statistics:
\* count, median and range of every (postcode, type, age) are the same for every
\* iteration order of the hash maps and every order of the samples inside the
\* lists, so two runs on the same sorted input report the same statistics.
\* (Rearranging the samples leaves the keys of the maps, hence the iteration
\* orders, as they are.)
C13_StatsIndependentOfOrder ==
    (pc = "loop" /\ it <= Len(entries) /\ MustFlush(entries[it], it = Len(entries))) =>
        LET acc    == postcode_year_entries
            orders == FlushOrders(acc)
            base   == StatsOf(Processed(acc, CHOOSE o \in orders : TRUE))
        IN  \A rearranged \in {Rearranged(acc, rank) : rank \in Rankings(acc)} :
                \A order \in orders :
                    StatsOf(Processed(rearranged, order)) = base

\* A flush is due with two hash-map keys to iterate over, or with a list of three
\* samples of different prices that is not in price order.
C13_Witness ==
    /\ pc = "loop"
    /\ it = Len(entries)
    /\ \/ Cardinality(FlushOrders(postcode_year_entries)) >= 2
       \/ \E p \in DOMAIN postcode_year_entries :
             \E k \in TypeAgeKeys(postcode_year_entries[p].properties) :
                LET list == postcode_year_entries[p].properties[k[1]][k[2]]
                IN  /\ Len(list) = 3
                    /\ list[1].price > list[2].price
                    /\ list[2].price < list[3].price
                    /\ list[1].price # list[3].price

\* The (postcode, type, age) keys that have a list in the accumulator.
ListKeys(acc) ==
    UNION {{<<p, k[1], k[2]>> : k \in TypeAgeKeys(acc[p].properties)} : p \in DOMAIN acc}

\* The list at a key; the empty list where there is none.
ListAt(acc, k) == IF k \in ListKeys(acc) THEN acc[k[1]].properties[k[2]][k[3]] ELSE <<>>

KeyOf(entry) == <<entry.postcode, entry.property_type, entry.property_age>>

SampleOf(entry, tag) == [address |-> entry.address, price |-> entry.price, rec |-> tag]

\* C15: whatever the accumulator holds comes from records of the current year,
\* every YearEntry in it is tagged with the current year, and the report emitted
\* for year Y (entries tagged Y) summarizes records of year Y only.
C15_OneYearAtATime ==
    /\ \A r \in Held(postcode_year_entries) : entries[r].date.year = year
    /\ \A p \in DOMAIN postcode_year_entries : postcode_year_entries[p].year = year
    /\ Len(summarized) = Len(Reports)
    /\ \A k \in 1..Len(summarized) :
          /\ \A r \in summarized[k] : entries[r].date.year = Reports[k].year
          /\ \A p \in DOMAIN Reports[k].postcodes :
                Reports[k].postcodes[p][1].year = Reports[k].year

\* The record that crossed the year boundary is alone in the accumulator, its
\* predecessor of the year before already reported.
C15_Witness ==
    /\ pc = "loop"
    /\ Len(summarized) = 1
    /\ summarized[1] = {1}
    /\ Held(postcode_year_entries) = {2}
    /\ entries[1].date.year < entries[2].date.year
    /\ year = entries[2].date.year

\* C16: an iteration of the loop appends exactly the sample of its record to the
\* list at the record's key, created if absent, on top of what was there (nothing,
\* if the iteration flushed and reset first): no other list changes, no key
\* disappears, and the number of samples grows by one.
C16_RouteAppendsOneSample ==
    [][(pc = "loop" /\ pc' = "loop" /\ it' = it + 1) =>
          LET entry == entries[it]
              base  == IF summarized' = summarized THEN postcode_year_entries ELSE EmptyMap
              k     == KeyOf(entry)
          IN  /\ ListAt(postcode_year_entries', k) =
                     Append(ListAt(base, k), SampleOf(entry, it))
              /\ ListKeys(postcode_year_entries') = ListKeys(base) \cup {k}
              /\ \A other \in ListKeys(base) \ {k} :
                    ListAt(postcode_year_entries', other) = ListAt(base, other)
              /\ Cardinality(Held(postcode_year_entries')) = Cardinality(Held(base)) + 1
      ]_vars

\* A record has been appended to a list that already held one.
C16_Witness ==
    /\ pc = "loop"
    /\ \E k \in ListKeys(postcode_year_entries) :
          /\ Len(ListAt(postcode_year_entries, k)) >= 2
          /\ ListAt(postcode_year_entries, k)[2].rec = it - 1

\* C17: the report a flush writes has exactly the postcodes of the accumulator,
\* one per-year entry for each, and in it one bucket for each (type, age) present
\* under the postcode and no other, whose count is the length of that list.
C17_ReportMirrorsAccumulator ==
    [][summarized' # summarized =>
          LET acc    == postcode_year_entries
              report == out'[Len(out') - 1].value
          IN  /\ out'[Len(out')] = Punct(",")
              /\ report.year = year
              /\ DOMAIN report.postcodes = DOMAIN acc
              /\ \A p \in DOMAIN acc :
                    /\ Len(report.postcodes[p]) = 1
                    /\ DOMAIN report.postcodes[p][1].buckets = DOMAIN acc[p].properties
                    /\ \A t \in DOMAIN acc[p].properties :
                          /\ DOMAIN report.postcodes[p][1].buckets[t] =
                                 DOMAIN acc[p].properties[t]
                          /\ \A a \in DOMAIN acc[p].properties[t] :
                                report.postcodes[p][1].buckets[t][a].count =
                                    Len(acc[p].properties[t][a])
      ]_vars

\* A report has been written from an accumulator with two postcodes, or with two
\* types under one postcode.
C17_Witness ==
    /\ Len(Reports) >= 1
    /\ \/ Cardinality(DOMAIN Reports[1].postcodes) = 2
       \/ \E p \in DOMAIN Reports[1].postcodes :
             Cardinality(DOMAIN Reports[1].postcodes[p][1].buckets) = 2

\* C18: every list in the accumulator is non-empty, so every bucket of every
\* report has a count of at least 1 and find_median, called on any list of the
\* accumulator, indexes inside its Vec.
C18_ListsNeverEmpty ==
    /\ \A k \in ListKeys(postcode_year_entries) :
          /\ ListAt(postcode_year_entries, k) # <<>>
          /\ find_median(sort_unstable(PricesOf(ListAt(postcode_year_entries, k))))
                 # IndexPanic
    /\ \A b \in BucketKeys : BucketAt(b).count >= 1

C18_Witness ==
    /\ pc = "done"
    /\ \E b \in BucketKeys : BucketAt(b).count = MaxRecords
    /\ ListKeys(postcode_year_entries) # {}

\* C19: when the loop has ended the accumulator holds exactly one sample, that of
\* the last record, and every flush of the run (there is at least one) was made
\* before that record was routed.
C19_LastRecordLeftInAccumulator ==
    ((pc = "loop" /\ it > Len(entries)) \/ pc = "done") =>
        LET last == Len(entries)
        IN  /\ ListKeys(postcode_year_entries) = {KeyOf(entries[last])}
            /\ ListAt(postcode_year_entries, KeyOf(entries[last])) =
                   <<SampleOf(entries[last], last)>>
            /\ Len(summarized) >= 1
            /\ \A k \in 1..Len(summarized) : last \notin summarized[k]

C19_Witness ==
    /\ pc = "done"
    /\ Len(entries) = MaxRecords
    /\ Len(summarized) = 2
    /\ Held(postcode_year_entries) = {MaxRecords}

(***************************************************************************)
(* Properties of to_price_bucket, under SpecBucket.                        *)
(***************************************************************************)
\* C7: to_price_bucket on an empty sample list returns, with count 0, median 0,
\* range (0, 0) and no retained properties.
C7_EmptyBucketDegrades ==
    (pc = "returned" /\ properties = <<>>) =>
        /\ ~Panicked(result)
        /\ result.count = 0
        /\ F32Is(result.median, 0, 0)
        /\ result.range = [start |-> 0, end |-> 0]
        /\ result.properties = <<>>

\* C8: for every non-empty sample list the median to_price_bucket returns is the
\* statistical median of the prices: the middle price for an odd count, the mean
\* of the two middle prices for an even count.
C8_MedianIsStatisticalMedian ==
    (pc = "returned" /\ properties # <<>>) =>
        /\ ~Panicked(result)
        /\ LET median == StatisticalMedian(PricesOf(properties))
           IN  F32Is(result.median, median.whole, median.half)

\* C9: the range to_price_bucket returns is the least and the greatest price of
\* the whole list; for the single price 500 it is (500, 500).
C9_RangeIsMinMax ==
    (pc = "returned" /\ properties # <<>> /\ ~Panicked(result)) =>
        LET prices == {properties[i].price : i \in 1..Len(properties)}
        IN  /\ result.range.start \in prices
            /\ result.range.end \in prices
            /\ \A p \in prices : result.range.start <= p /\ p <= result.range.end
            /\ (PricesOf(properties) = <<500>>) =>
                   result.range = [start |-> 500, end |-> 500]

C9_Witness ==
    /\ pc = "returned"
    /\ ~Panicked(result)
    /\ Len(properties) = 3
    /\ properties[1].price = BandMax /\ properties[2].price = 500
    /\ properties[3].price = BandMin - 1
    /\ result.range = [start |-> 500, end |-> BandMax]

\* The band of the retained properties: 300000 to 800000, both inclusive.
InClaimedBand(p) == 300000 <= p.price /\ p.price <= 800000

\* C14: the retained properties are exactly the samples priced from 300000 to
\* 800000 inclusive, in list order, while count and range (and the median, where
\* f32 holds it exactly) are those of the full list, out-of-band samples included.
C14_RetainedBandFullStats ==
    (pc = "returned" /\ ~Panicked(result)) =>
        LET kept   == SelectSeq(properties, InClaimedBand)
            prices == {properties[i].price : i \in 1..Len(properties)}
        IN  /\ result.properties =
                   [i \in 1..Len(kept) |-> [address |-> kept[i].address, price |-> kept[i].price]]
            /\ result.count = Len(properties)
            /\ result.range.start \in prices /\ result.range.end \in prices
            /\ \A p \in prices : result.range.start <= p /\ p <= result.range.end
            /\ (\A p \in prices : Abs(p) < 2 ^ (F32Digits - 1)) =>
                   LET median == StatisticalMedian(PricesOf(properties))
                   IN  F32Is(result.median, median.whole, median.half)

C14_Witness ==
    /\ pc = "returned"
    /\ PricesOf(properties) = <<BandMax + 1, BandMin, BandMin - 1>>
    /\ Len(result.properties) = 1
    /\ result.properties[1].price = BandMin
    /\ result.count = 3
    /\ result.range = [start |-> BandMin - 1, end |-> BandMax + 1]
    /\ F32Is(result.median, BandMin, 0)

\* C20: for an even-length list of i32 prices the sum of the two middle prices is
\* an i32, so the call returns and its median did not wrap.
C20_MiddleSumInRange ==
    (pc = "returned" /\ Len(properties) >= 2 /\ Len(properties) % 2 = 0) =>
        LET prices == sort_unstable(PricesOf(properties))
            middle == Len(prices) \div 2
        IN  /\ Add32(At(prices, middle - 1), At(prices, middle)).ok
            /\ ~Panicked(result)

====
